---- MODULE Spec2Model ----
(***************************************************************************)
(* Model of src/app.py, the Purdue AI Career Mapper: a Streamlit script    *)
(* that is re-executed from the top on every user interaction and keeps    *)
(* four fields in st.session_state.  A state of the model is the session   *)
(* state between two script runs plus what the last run put on the page;   *)
(* an action is one script run.                                            *)
(*                                                                         *)
(* Units: token_usage is kept in quarter tokens (the code adds len/4 of    *)
(* two character counts, so four times the value is the character total),  *)
(* session_cost in thousandths of a dollar (the code adds 0.003).          *)
(***************************************************************************)
EXTENDS Integers, Sequences, FiniteSets, TLC

VARIABLES graph_data, token_usage, session_cost, should_fetch,
          rerun, calls, calls_since_generate, last, view

vars == <<graph_data, token_usage, session_cost, should_fetch,
          rerun, calls, calls_since_generate, last, view>>

-----------------------------------------------------------------------------
(* Bounds *)

MaxCalls == 2
MaxJobs == 2
MaxCerts == 2

-----------------------------------------------------------------------------
(* Python and JSON values.  A dict is a record with the pseudo-key "type"  *)
(* and one field per key; {} is the record with "pytype" alone.            *)

None == [pytype |-> "NoneType"]

EmptyDict == [pytype |-> "dict"]

Str(s) == [pytype |-> "str", value |-> s]

IsDict(v) == v.pytype = "dict"

\* Python truth value, as `if data:` and `if not api_key:` take it
Truthy(v) ==
    CASE v.pytype = "NoneType" -> FALSE
      [] v.pytype = "dict" -> DOMAIN v # {"pytype"}
      [] v.pytype = "str" -> v.value # ""
      [] OTHER -> TRUE

Has(obj, key) == key \in DOMAIN obj

RECURSIVE SumOver(_, _)
SumOver(f, S) ==
    IF S = {} THEN 0
    ELSE LET x == CHOOSE y \in S : TRUE IN f[x] + SumOver(f, S \ {x})

-----------------------------------------------------------------------------
(* Widgets of the sidebar *)

Tracks == {"AI Management & Policy", "AI and Machine Learning"}

Industries == {"Any", "Healthcare"}

Styles == {"Any"}

Filters == [track : Tracks, industry : Industries, style : Styles]

\* len(system_instruction): the f-string with its four kinds of holes
PromptLen(filters) ==
    (IF filters.track = "AI Management & Policy" THEN 1632 ELSE 1555)
      + 2 * Len(filters.track) + 3 * Len(filters.industry) + Len(filters.style)

-----------------------------------------------------------------------------
(* Layout rendering: the node and edge lists handed to agraph.  Every      *)
(* subscript of a missing key raises KeyError, which nothing catches.      *)

Node(id, size, color, title, shape) ==
    [id |-> id, label |-> id, size |-> size, color |-> color,
     title |-> title, shape |-> shape]

Edge(source, target) == [source |-> source, target |-> target]

Raised(acc) == [acc EXCEPT !.raised = TRUE]

\* one pass of `for sub in item['sub_connections']`
RECURSIVE SubLoop(_, _, _, _)
SubLoop(acc, item, subs, j) ==
    IF acc.raised \/ j > Len(subs) THEN acc
    ELSE LET sub == subs[j] IN
         IF ~Has(sub, "name") THEN Raised(acc)
         ELSE IF sub.name \notin acc.node_ids /\ ~Has(sub, "reason") THEN Raised(acc)
         ELSE LET withNode ==
                      IF sub.name \notin acc.node_ids
                      THEN [acc EXCEPT
                              !.nodes = Append(@, Node(sub.name, 20, "#00C0F2",
                                  "Cert for " \o item.name \o ": " \o sub.reason,
                                  "diamond")),
                              !.node_ids = @ \cup {sub.name}]
                      ELSE acc
              IN SubLoop([withNode EXCEPT
                             !.edges = Append(@, Edge(item.name, sub.name))],
                         item, subs, j + 1)

\* one pass of `for item in connections`
RECURSIVE ItemLoop(_, _, _, _)
ItemLoop(acc, center_info, connections, i) ==
    IF acc.raised \/ i > Len(connections) THEN acc
    ELSE LET item == connections[i] IN
         IF ~Has(item, "name") THEN Raised(acc)
         ELSE IF item.name \notin acc.node_ids /\ ~Has(item, "reason") THEN Raised(acc)
         ELSE LET withNode ==
                      IF item.name \notin acc.node_ids
                      THEN [acc EXCEPT
                              !.nodes = Append(@, Node(item.name, 30, "#FF4B4B",
                                                       item.reason, "dot")),
                              !.node_ids = @ \cup {item.name}]
                      ELSE acc
                  withEdge ==
                      [withNode EXCEPT
                         !.edges = Append(@, Edge(center_info.name, item.name))]
                  withSubs ==
                      IF Has(item, "sub_connections")
                      THEN SubLoop(withEdge, item, item.sub_connections, 1)
                      ELSE withEdge
              IN ItemLoop(withSubs, center_info, connections, i + 1)

NoGraph == [raised |-> TRUE, nodes |-> <<>>, edges |-> <<>>, node_ids |-> {}]

\* nodes, edges and node_ids built from a truthy graph_data
BuildGraph(data) ==
    IF ~IsDict(data) THEN NoGraph
    ELSE IF ~Has(data, "center_node") \/ ~Has(data, "connections") THEN NoGraph
    ELSE IF ~Has(data.center_node, "name") THEN NoGraph
    ELSE LET center_info == data.center_node
             start == [raised |-> FALSE,
                       nodes |-> <<Node(center_info.name, 45, "#B19CD9", "", "dot")>>,
                       edges |-> <<>>,
                       node_ids |-> {center_info.name}]
         IN ItemLoop(start, center_info, data.connections, 1)

-----------------------------------------------------------------------------
(* Details panel: the lookup of the clicked node *)

SubsOf(c) == IF Has(c, "sub_connections") THEN c.sub_connections ELSE <<>>

\* display_sub of a job: the header and one bullet per certification
RECURSIVE Bullets(_, _, _)
Bullets(d, subs, j) ==
    IF d.raised \/ j > Len(subs) THEN d
    ELSE IF ~Has(subs[j], "name") THEN Raised(d)
    ELSE Bullets([d EXCEPT !.display_sub = @ \o "\n- " \o subs[j].name],
                 subs, j + 1)

\* the inner `for sub in c.get('sub_connections', [])`, left at the first match
RECURSIVE SubFind(_, _, _, _, _)
SubFind(d, c, subs, j, selected) ==
    IF d.raised \/ j > Len(subs) THEN d
    ELSE IF ~Has(subs[j], "name") THEN Raised(d)
    ELSE IF subs[j].name = selected
         THEN IF ~Has(subs[j], "reason") THEN Raised(d)
              ELSE [d EXCEPT !.display_text = subs[j].reason,
                             !.display_sub =
                                 "Critical credibility booster for: " \o c.name,
                             !.found = TRUE]
    ELSE SubFind(d, c, subs, j + 1, selected)

\* the outer `for c in connections`, left only when a job matches
RECURSIVE DetailsLoop(_, _, _, _)
DetailsLoop(d, connections, i, selected) ==
    IF d.raised \/ i > Len(connections) THEN d
    ELSE LET c == connections[i] IN
         IF ~Has(c, "name") THEN Raised(d)
         ELSE IF c.name = selected
              THEN IF ~Has(c, "reason") THEN Raised(d)
                   ELSE Bullets([d EXCEPT
                                   !.display_text = c.reason,
                                   !.display_sub = "Top Recommended Certifications:",
                                   !.found = TRUE],
                                SubsOf(c), 1)
         ELSE DetailsLoop(SubFind(d, c, SubsOf(c), 1, selected),
                          connections, i + 1, selected)

NoClick == ""

\* title, text and footer of the details card for the value agraph returned
resolveDetails(data, clicked_node) ==
    LET center_info == data.center_node
        selected_node_name ==
            IF clicked_node # NoClick THEN clicked_node ELSE center_info.name
        d0 == [selected_node_name |-> selected_node_name,
               display_text |-> "", display_sub |-> "",
               found |-> FALSE, raised |-> FALSE]
    IN IF selected_node_name = center_info.name
       THEN IF ~Has(center_info, "mission") THEN Raised(d0)
            ELSE [d0 EXCEPT
                    !.display_text = center_info.mission,
                    !.display_sub = "Select a red node (Job) to see details, or a blue diamond (Cert) for requirements."]
       ELSE LET d == DetailsLoop(d0, data.connections, 1, selected_node_name)
            IN IF ~d.raised /\ ~d.found
               THEN [d EXCEPT !.display_text = "Node details not found."]
               ELSE d

Landing == [kind |-> "landing"]

Crashed == [kind |-> "exception"]

Interrupted == [kind |-> "rerun"]

\* what section 5 of the script puts on the page
Render(data, clicked_node) ==
    IF ~Truthy(data) THEN Landing
    ELSE LET g == BuildGraph(data) IN
         IF g.raised THEN Crashed
         ELSE LET d == resolveDetails(data, clicked_node) IN
              IF d.raised THEN Crashed
              ELSE [kind |-> "graph", nodes |-> g.nodes, edges |-> g.edges,
                    selected_node_name |-> d.selected_node_name,
                    display_text |-> d.display_text,
                    display_sub |-> d.display_sub]

-----------------------------------------------------------------------------
(* The text of a completion: a sequence of pieces, each a code-fence       *)
(* marker, white space, prose, or the serialisation of one JSON value.     *)

\* three backquotes followed by the language tag s
Fence(s) == [kind |-> "fence", s |-> s]

Space(s) == [kind |-> "space", s |-> s]

Prose(s) == [kind |-> "prose", s |-> s]

Json(v) == [kind |-> "json", value |-> v]

Fenced(v) == <<Fence("json"), Space("\n"), Json(v), Space("\n"), Fence("")>>

Bare(v) == <<Json(v)>>

StringKeys == {"name", "reason", "mission", "type", "positive_news", "red_flags"}

\* character count of json.dumps of a document
RECURSIVE JsonLen(_)
JsonLen(v) ==
    LET keys == DOMAIN v \ {"pytype"}
        ValueLen(k) ==
            IF k \in StringKeys THEN Len(v[k]) + 2
            ELSE IF k = "center_node" THEN JsonLen(v[k])
            ELSE 2 + SumOver([j \in DOMAIN v[k] |-> JsonLen(v[k][j])], DOMAIN v[k])
                   + 2 * (IF Len(v[k]) > 0 THEN Len(v[k]) - 1 ELSE 0)
    IN IF "pytype" \in DOMAIN v /\ v.pytype = "NoneType" THEN 4
       ELSE 2 + SumOver([k \in keys |-> Len(k) + 4 + ValueLen(k)], keys)
              + 2 * (IF keys # {} THEN Cardinality(keys) - 1 ELSE 0)

PieceLen(piece) ==
    CASE piece.kind = "json" -> JsonLen(piece.value)
      [] piece.kind = "fence" -> 3 + Len(piece.s)
      [] OTHER -> Len(piece.s)

\* len(response.text)
TextLen(text) == SumOver([i \in DOMAIN text |-> PieceLen(text[i])], DOMAIN text)

\* the two str.replace calls that delete the fence markers
\* (a marker with another language tag leaves the tag behind)
RemoveFences(text) ==
    SelectSeq([i \in DOMAIN text |->
                  IF text[i].kind = "fence" /\ text[i].s \notin {"json", ""}
                  THEN Prose(text[i].s) ELSE text[i]],
              LAMBDA piece : piece.kind # "fence")

\* str.strip()
RECURSIVE Strip(_)
Strip(text) ==
    IF text = <<>> THEN text
    ELSE IF Head(text).kind = "space" THEN Strip(Tail(text))
    ELSE IF text[Len(text)].kind = "space" THEN Strip(SubSeq(text, 1, Len(text) - 1))
    ELSE text

clean_text(text) == Strip(RemoveFences(text))

\* json.loads accepts exactly one JSON value
Parses(clean) == Len(clean) = 1 /\ clean[1].kind = "json"

-----------------------------------------------------------------------------
(* Documents the completion service is taken to answer with *)

Center == [name |-> "Purdue Policy Grad", type |-> "Degree",
           mission |-> "Career Map for the AI Management & Policy track in Any."]

Cert(name, reason) == [name |-> name, reason |-> reason]

Job(name, reason, subs) == [name |-> name, reason |-> reason, sub_connections |-> subs]

Graph(center, connections) ==
    [pytype |-> "dict", center_node |-> center, connections |-> connections]

SmallGraph ==
    Graph(Center, <<Job("AI Audit Manager", "Governance focus",
                        <<Cert("CISA", "Audit baseline")>>)>>)

SharedCertGraph ==
    Graph(Center, <<Job("AI Audit Manager", "Governance focus",
                        <<Cert("AIGP", "Needed by auditors")>>),
                    Job("AI Policy Analyst", "Policy focus",
                        <<Cert("AIGP", "Needed by analysts")>>)>>)

NoCenterDoc == [pytype |-> "dict", connections |-> <<>>]

NoReasonDoc ==
    Graph(Center, <<[name |-> "AI Audit Manager",
                     sub_connections |-> <<Cert("CISA", "Audit baseline")>>]>>)

Refusal == <<Prose("I am unable to produce a career map for this request.")>>

ResponseTexts ==
    {Refusal, Bare(EmptyDict), Bare(NoCenterDoc), Bare(NoReasonDoc),
     Fenced(SmallGraph), Fenced(SharedCertGraph)}

BoundedSeq(S, n) == UNION {[1..k -> S] : k \in 0..n}

JobNames == {"Purdue Policy Grad", "AI Audit Manager", "AI Policy Analyst"}

CertNames == {"AI Audit Manager", "AIGP"}

\* every well-formed document with at most MaxJobs jobs of at most MaxCerts
\* certifications each, names repeating freely, every reason told apart by
\* its position
GeneratedGraphs ==
    {Graph(Center,
           [i \in DOMAIN jobs |->
               Job(jobs[i].name, "Why job " \o ToString(i),
                   [j \in DOMAIN jobs[i].certs |->
                       Cert(jobs[i].certs[j],
                            "Why cert " \o ToString(i) \o "." \o ToString(j))])]) :
        jobs \in BoundedSeq([name : JobNames, certs : BoundedSeq(CertNames, MaxCerts)],
                            MaxJobs)}

\* generate_content either raises or returns a response with a text
ServiceOutcomes ==
    {[raises |-> TRUE]} \cup {[raises |-> FALSE, text |-> t] : t \in ResponseTexts}

\* what st.secrets and os.environ hold for GEMINI_API_KEY (None: not set)
Credentials == {None, Str(""), Str("key")}

-----------------------------------------------------------------------------
(* get_gemini_response *)

\* variant: a built-in key stands in when neither source has one
ResolveKeyWithDefault(secret, env) ==
    IF secret # None THEN secret ELSE IF env # None THEN env ELSE Str("demo-key")

\* st.secrets[...] raises when the key is not there, os.environ.get does not
ResolveKey(secret, env) == IF secret # None THEN secret ELSE env

\* variant: the except branch hands the message back as a document
OnExceptionMessage == [pytype |-> "dict", error |-> "AI Analysis Error"]

\* the value returned from the except branch
OnException == None

get_gemini_response(filters, secret, env, svc) ==
    LET api_key == ResolveKey(secret, env)
        quiet == [ret |-> None, error |-> "none", called |-> FALSE,
                  key_found |-> TRUE, tokens |-> 0, cost |-> 0]
    IN IF ~Truthy(api_key)
       THEN [quiet EXCEPT !.error = "GEMINI_API_KEY not found", !.key_found = FALSE]
       ELSE IF svc.raises
       THEN [quiet EXCEPT !.ret = OnException, !.error = "AI Analysis Error",
                          !.called = TRUE]
       ELSE LET counted == [quiet EXCEPT
                              !.called = TRUE,
                              !.tokens = PromptLen(filters) + TextLen(svc.text),
                              !.cost = 3]
                clean == clean_text(svc.text)
            IN IF Parses(clean)
               THEN [counted EXCEPT !.ret = clean[1].value]
               ELSE [counted EXCEPT !.ret = OnException,
                                    !.error = "AI Analysis Error"]

-----------------------------------------------------------------------------
(* The session *)

Ran(op, r, crashed) ==
    [op |-> op, error |-> r.error, called |-> r.called,
     key_found |-> r.key_found, exception |-> crashed]

Silent == [error |-> "none", called |-> FALSE, key_found |-> TRUE]

\* values agraph can return: nothing, a node of the drawn graph, or the id
\* of a node of an earlier graph
Clickable(data) ==
    {NoClick, "Chief AI Officer"}
      \cup (IF Truthy(data) THEN BuildGraph(data).node_ids ELSE {})

\* the pages section 5 can produce, one per value agraph can return
Pages(data) == {Render(data, clicked_node) : clicked_node \in Clickable(data)}

Init ==
    /\ graph_data = None
    /\ token_usage = 0
    /\ session_cost = 0
    /\ should_fetch = FALSE
    /\ rerun = FALSE
    /\ calls = 0
    /\ calls_since_generate = 0
    /\ last = Ran("start", Silent, FALSE)
    /\ view = Landing

\* variant: Generate Paths leaves the drawn graph in place
GeneratePathsKeepsGraph ==
    /\ ~rerun
    /\ should_fetch' = TRUE
    /\ rerun' = TRUE
    /\ calls_since_generate' = 0
    /\ last' = Ran("generate", Silent, FALSE)
    /\ view' = Interrupted
    /\ UNCHANGED <<graph_data, token_usage, session_cost, calls>>

\* a run in which the Generate Paths button reports a click
GeneratePaths ==
    /\ ~rerun
    /\ should_fetch' = TRUE
    /\ graph_data' = None
    /\ rerun' = TRUE
    /\ calls_since_generate' = 0
    /\ last' = Ran("generate", Silent, FALSE)
    /\ view' = Interrupted
    /\ UNCHANGED <<token_usage, session_cost, calls>>

\* variant: Clear Map also zeroes the session monitor
ClearMapResetsCounters ==
    /\ ~rerun
    /\ graph_data' = None
    /\ should_fetch' = FALSE
    /\ token_usage' = 0
    /\ session_cost' = 0
    /\ rerun' = TRUE
    /\ last' = Ran("clear", Silent, FALSE)
    /\ view' = Interrupted
    /\ UNCHANGED <<calls, calls_since_generate>>

\* a run in which the Clear Map button reports a click
ClearMap ==
    /\ ~rerun
    /\ graph_data' = None
    /\ should_fetch' = FALSE
    /\ rerun' = TRUE
    /\ last' = Ran("clear", Silent, FALSE)
    /\ view' = Interrupted
    /\ UNCHANGED <<token_usage, session_cost, calls, calls_since_generate>>

\* a run with no button click that finds should_fetch set
FetchRun(filters, secret, env, svc) ==
    /\ should_fetch
    /\ LET r == get_gemini_response(filters, secret, env, svc)
           n == IF r.called THEN 1 ELSE 0
       IN /\ calls + n <= MaxCalls
          /\ calls' = calls + n
          /\ calls_since_generate' = calls_since_generate + n
          /\ token_usage' = token_usage + r.tokens
          /\ session_cost' = session_cost + r.cost
          /\ IF Truthy(r.ret)
             THEN /\ graph_data' = r.ret
                  /\ should_fetch' = FALSE
                  /\ rerun' = TRUE
                  /\ view' = Interrupted
                  /\ last' = Ran("fetch", r, FALSE)
             ELSE /\ view' \in Pages(graph_data)
                  /\ last' = Ran("fetch", r, view' = Crashed)
                  /\ rerun' = FALSE
                  /\ UNCHANGED <<graph_data, should_fetch>>

\* a run with no button click that finds should_fetch clear
PlainRun ==
    /\ ~should_fetch
    /\ view' \in Pages(graph_data)
    /\ last' = Ran("render", Silent, view' = Crashed)
    /\ rerun' = FALSE
    /\ UNCHANGED <<graph_data, should_fetch, token_usage, session_cost,
                   calls, calls_since_generate>>

Fetch ==
    \E filters \in Filters, secret \in Credentials, env \in Credentials,
       svc \in ServiceOutcomes :
        FetchRun(filters, secret, env, svc)

\* the same run with the credential in place, the service answering with any
\* graph of the bounded family
FetchGenerated ==
    \E g \in GeneratedGraphs :
        FetchRun([track |-> "AI Management & Policy", industry |-> "Any",
                  style |-> "Any"],
                 Str("key"), None, [raises |-> FALSE, text |-> Fenced(g)])

Next == GeneratePaths \/ ClearMap \/ Fetch \/ PlainRun

Spec == Init /\ [][Next]_vars

\* the session right after a click on Generate Paths
InitGenerated ==
    /\ graph_data = None
    /\ token_usage = 0
    /\ session_cost = 0
    /\ should_fetch = TRUE
    /\ rerun = TRUE
    /\ calls = 0
    /\ calls_since_generate = 0
    /\ last = Ran("generate", Silent, FALSE)
    /\ view = Interrupted

NextGraph == FetchGenerated \/ PlainRun

SpecGraph == InitGenerated /\ [][NextGraph]_vars

-----------------------------------------------------------------------------
(* Properties *)

FetchFailed == last.op = "fetch" /\ last.error # "none"

\* C1: once get_gemini_response has returned, whatever it returned,
\* should_fetch is false.
C1_FetchClearsPending == last.op = "fetch" => ~should_fetch

\* C2: the completion service is called at most once per Generate action.
C2_OneCallPerGenerate == calls_since_generate <= 1

Usable(data) == Truthy(data) /\ ~BuildGraph(data).raised

\* C3: no script run ends in an uncaught exception, and a fetch that does not
\* leave a usable graph in graph_data has shown an error message.
C3_FailureShownNeverCrashes ==
    /\ ~last.exception
    /\ (last.op = "fetch" /\ ~Usable(graph_data)) => last.error # "none"

HasRequiredFields(data) ==
    /\ IsDict(data)
    /\ Has(data, "center_node") /\ Has(data.center_node, "name")
    /\ Has(data, "connections")
    /\ \A i \in DOMAIN data.connections :
          Has(data.connections[i], "name") /\ Has(data.connections[i], "reason")

\* C4: a document that lacks center_node.name, or the name or reason of a
\* connections entry, is never stored in graph_data.
C4_IncompleteNeverStored == graph_data # None => HasRequiredFields(graph_data)

\* C5: a fetch that reports an error leaves graph_data as it was before the
\* call; a fetch changes graph_data only when the response parsed.
C5_FailedFetchKeepsGraph ==
    [][last'.op = "fetch" /\ last'.error # "none" => graph_data' = graph_data]_vars

C5_Witness ==
    /\ FetchFailed /\ last.called
    /\ token_usage > 0
    /\ graph_data = None

\* C6: a fetch that finds the key neither in the secrets store nor in the
\* environment reports the missing key, does not call the completion
\* service, and leaves token_usage and session_cost as they were.
C6_NoCredentialNoCall ==
    [][\A filters \in Filters, svc \in ServiceOutcomes :
          FetchRun(filters, None, None, svc) =>
              /\ last'.error = "GEMINI_API_KEY not found"
              /\ ~last'.called
              /\ calls' = calls
              /\ token_usage' = token_usage
              /\ session_cost' = session_cost]_vars

C6_Witness ==
    /\ last.op = "fetch" /\ ~last.key_found
    /\ last.error = "GEMINI_API_KEY not found"
    /\ token_usage > 0 /\ session_cost > 0

\* C7, as stated: the counters never decrease except at a Clear action, and
\* a Clear action resets both to zero.
C7_ClearResetsCounters ==
    [][/\ last'.op # "clear" =>
             token_usage' >= token_usage /\ session_cost' >= session_cost
       /\ last'.op = "clear" => token_usage' = 0 /\ session_cost' = 0]_vars

\* C7, amended: the counters never decrease in any step, and a Clear action
\* leaves both as they were.
C7_CountersNeverDecrease ==
    [][/\ token_usage' >= token_usage
       /\ session_cost' >= session_cost
       /\ last'.op = "clear" =>
             token_usage' = token_usage /\ session_cost' = session_cost]_vars

C7_Witness == last.op = "clear" /\ token_usage > 0 /\ session_cost > 0

\* (i, j) of every listing of a certification called name
Listings(data, name) ==
    {ij \in UNION {{<<i, j>> : j \in DOMAIN SubsOf(data.connections[i])} :
                      i \in DOMAIN data.connections} :
        SubsOf(data.connections[ij[1]])[ij[2]].name = name}

TitleOf(nodes, id) ==
    LET i == CHOOSE k \in DOMAIN nodes : nodes[k].id = id IN nodes[i].title

NodeNamesAbove(data) ==
    {data.center_node.name} \cup {data.connections[i].name : i \in DOMAIN data.connections}

\* C8: when the selected name is the name of a certification of the graph
\* (and of no job, nor of the center), the card shows the reason of a listing
\* of that certification, its footer names the job of that listing, and the
\* tooltip of the drawn node names the same job.
C8_CertificationDetails ==
    (/\ view.kind = "graph"
     /\ view.selected_node_name \notin NodeNamesAbove(graph_data)
     /\ Listings(graph_data, view.selected_node_name) # {}) =>
        \E ij \in Listings(graph_data, view.selected_node_name) :
            LET job == graph_data.connections[ij[1]]
                cert == job.sub_connections[ij[2]]
            IN /\ view.display_text = cert.reason
               /\ view.display_sub = "Critical credibility booster for: " \o job.name
               /\ TitleOf(view.nodes, view.selected_node_name)
                      = "Cert for " \o job.name \o ": " \o cert.reason

Incoming(edges, id) == {k \in DOMAIN edges : edges[k].target = id}

SizeOf(nodes, id) ==
    LET i == CHOOSE k \in DOMAIN nodes : nodes[k].id = id IN nodes[i].size

\* C9: the drawn graph is a tree rooted in the center node: ids are
\* distinct, the center has no incoming edge, every other node has exactly
\* one, and every edge runs from the center to a job or from a job to a
\* certification.
C9_RootedTree ==
    view.kind = "graph" =>
        LET nodes == view.nodes
            edges == view.edges
            center == nodes[1].id
        IN /\ \A i, j \in DOMAIN nodes : nodes[i].id = nodes[j].id => i = j
           /\ Incoming(edges, center) = {}
           /\ \A i \in DOMAIN nodes \ {1} :
                 Cardinality(Incoming(edges, nodes[i].id)) = 1
           /\ \A k \in DOMAIN edges :
                 \/ /\ edges[k].source = center
                    /\ SizeOf(nodes, edges[k].target) = 30
                 \/ /\ SizeOf(nodes, edges[k].source) = 30
                    /\ SizeOf(nodes, edges[k].target) = 20

\* C10: while should_fetch is set graph_data is None, and a fetch that
\* reported an error is followed by the landing page, not by a graph.
C10_PendingFetchNoGraph ==
    /\ should_fetch => graph_data = None
    /\ FetchFailed => view = Landing

C10_Witness ==
    /\ should_fetch /\ FetchFailed
    /\ session_cost > 0
    /\ view = Landing

====
